---- MODULE Spec2Model ----
(***************************************************************************)
(* Model of structure_text_content (process_pdf_data_python/main.py), the  *)
(* line loop that rebuilds the Part / Head / Paragraph / Subsection tree   *)
(* of a statute from its cleaned text lines.                               *)
(*                                                                         *)
(* Representation.  A line is the sequence of its whitespace-separated     *)
(* words, so len(line.split()) is Len(line), and " ".join(parts).strip()   *)
(* is the concatenation of the parts.  Words are ASCII transliterations:   *)
(* "CAST" is the Part keyword, "HLAVA" the Head keyword, "PAR" the         *)
(* paragraph sign, "cl." the article abbreviation.  A Python str held in a *)
(* buffer is the record Str(words); a dict is a record with its "type".    *)
(* None is the string "None" for the number/letter pointers and NoneDict   *)
(* for current_part / current_head.  Every node record carries a field     *)
(* "line", the position of the marker line that activated it: it stands    *)
(* for the identity of the Python object and is read by no operation.      *)
(* line_idx is the 1-based position of the line the loop is at.            *)
(***************************************************************************)
EXTENDS Integers, Sequences, FiniteSets, TLC

\* ------------------------------------------------------------------ bounds
MaxLines == 4
MaxHeuristicLines == 3
MaxTitleLines == 6
\* lines of a document of the conversion pipeline
MaxMetaLines == 3
\* entries of the input directory
MaxFiles == 3
\* lines extracted from the pages of a document
MaxRawLines == 3

\* --------------------------------------------------------------- constants
\* len(next_line_stripped.split()) > 10 (the paragraph-title heuristic)
MaxTitleWords == 10

None == "None"
NoneDict == [type |-> "none"]

\* ------------------------------------------------------------- vocabulary
PartKeyword == "CAST"
HeadKeyword == "HLAVA"
ParSign == "PAR"
RomanTokens == {"I", "II"}
\* identifier words of a Part that are not roman numerals; [A-Z]+ stops at
\* the first non-ASCII letter, so "PRVNI'" (last letter accented) yields "PRVN"
LetterTokens == {"PRVNI'"}
NumberTokens == {"1", "2"}
Sub1Tokens == {"(1)", "(2)"}
Sub2Tokens == {"a)", "b)"}

LongLine == <<"w", "w", "w", "w", "w", "w", "w", "w", "w", "w", "w">>

\* The lines a document is drawn from: each marker with and without inline
\* text, a short and a long plain line.
Lines ==
    { <<PartKeyword, "I">>,
      <<HeadKeyword, "I">>,
      <<ParSign, "1">>,
      <<ParSign, "2", "x">>,
      <<"(1)">>,
      <<"(2)", "y">>,
      <<"a)">>,
      <<"b)", "z">>,
      <<"t">>,
      LongLine }

RECURSIVE SeqsUpTo(_)
SeqsUpTo(n) ==
    IF n = 0 THEN { <<>> }
    ELSE LET shorter == SeqsUpTo(n - 1)
         IN  shorter \cup { Append(s, l) : s \in { q \in shorter : Len(q) = n - 1 }, l \in Lines }

\* ------------------------------------------------------- line classifier
Tail2(line) == SubSeq(line, 2, Len(line))
Tail3(line) == SubSeq(line, 3, Len(line))

\* part_re = ^\s*CAST\s+([A-Z]+|[IVXLCDM]+), IGNORECASE
part_re(line) ==
    /\ Len(line) >= 2
    /\ line[1] \in {PartKeyword, "cast"}
    /\ line[2] \in RomanTokens \cup LetterTokens
\* part_match.group(1)
part_group1(line) == IF line[2] = "PRVNI'" THEN "PRVN" ELSE line[2]

\* head_re = ^\s*HLAVA\s+([IVXLCDM]+), IGNORECASE
head_re(line) ==
    Len(line) >= 2 /\ line[1] \in {HeadKeyword, "hlava"} /\ line[2] \in RomanTokens
head_group1(line) == line[2]

\* paragraph_re = ^\s*PAR\s*(\d+[a-z]?)
paragraph_re(line) ==
    Len(line) >= 2 /\ line[1] = ParSign /\ line[2] \in NumberTokens
paragraph_group1(line) == line[2]

\* subsection_l1_re = ^\s*\((\d+)\)
subsection_l1_re(line) == Len(line) >= 1 /\ line[1] \in Sub1Tokens
subsection_l1_group1(line) == IF line[1] = "(1)" THEN "1" ELSE "2"

\* subsection_l2_re = ^\s*([a-z])\)
subsection_l2_re(line) == Len(line) >= 1 /\ line[1] \in Sub2Tokens
subsection_l2_group1(line) == IF line[1] = "a)" THEN "a" ELSE "b"

\* str.startswith on the first word of a stripped line
StartsWithParSign(line) == Len(line) >= 1 /\ line[1] \in {ParSign, "PARabc"}
StartsWithParen(line) == Len(line) >= 1 /\ line[1] \in Sub1Tokens \cup {"(x)"}
StartsWithCl(line) == Len(line) >= 1 /\ line[1] \in {"cl.", "Cl."}

\* The branch of the loop body a line takes (first match wins).
Kind(line) ==
    IF part_re(line) THEN "part"
    ELSE IF head_re(line) THEN "head"
    ELSE IF paragraph_re(line) THEN "paragraph"
    ELSE IF subsection_l1_re(line) THEN "subsection_level1"
    ELSE IF subsection_l2_re(line) THEN "subsection_level2"
    ELSE "text"

\* ------------------------------------------------------ extract_metadata
\* A Python str is the sequence of its words: "" is <<>>, "UNKNOWN" is Unknown.
Unknown == <<"UNKNOWN">>

\* range(i + 1, min(i + 5, len(text_content_lines))): the title window's stop
TitleRangeStop == 5
\* text_content_lines[:10]: the lines searched for the publication date
PublicationDateLines == 10

LawNumbers == {"101/2000", "7/1999"}
DayTokens == {"4.", "1."}
MonthTokens == {"dubna", "ledna"}
YearTokens == {"2000", "2001."}

\* The lines a document of the conversion pipeline is drawn from: an
\* identifier line, title lines with and without a cue, a date line, markers
\* of every level, references and an effective-date sentence.
MetaLines ==
    { <<"101/2000", "Sb.">>,
      <<"ZAKON", "o", "ochrane">>,
      <<"ze", "dne", "4.", "dubna", "2000">>,
      <<"Sbirka">>,
      <<"TATO", PartKeyword, "o", "danich">>,
      <<PartKeyword, "I">>,
      <<HeadKeyword, "I">>,
      <<ParSign, "1">>,
      <<ParSign, "2", "zakona", "c.", "7/1999", "Sb.">>,
      <<"(1)", "podle", "zakona", "c.", "7/1999", "Sb.">>,
      <<"a)", "nabyva", "ucinnosti", "dnem", "1.", "ledna", "2001.">> }

RECURSIVE MetaSeqsUpTo(_)
MetaSeqsUpTo(n) ==
    IF n = 0 THEN { <<>> }
    ELSE LET shorter == MetaSeqsUpTo(n - 1)
         IN  shorter \cup { Append(s, l) : s \in { q \in shorter : Len(q) = n - 1 },
                                           l \in MetaLines }

\* str.lower() of a word
Lower(word) ==
    CASE word = "ZAKON" -> "zakon"
      [] word = "TATO" -> "tato"
      [] word = "CAST" -> "cast"
      [] word = "HLAVA" -> "hlava"
      [] word = "PAR" -> "par"
      [] word = "I" -> "i"
      [] word = "Sb." -> "sb."
      [] word = "Sbirka" -> "sbirka"
      [] OTHER -> word

FlattenLines(lines) ==
    LET F[k \in 0..Len(lines)] == IF k = 0 THEN <<>> ELSE F[k - 1] \o lines[k]
    IN  F[Len(lines)]

\* re.search(r"(\d+/\d{4})\s+Sb\.", line): the positions of the number
IdPositions(line) ==
    { k \in 1..(Len(line) - 1) : line[k] \in LawNumbers /\ line[k + 1] = "Sb." }
match_id(line) == IdPositions(line) # {}
match_id_group1(line) ==
    line[CHOOSE k \in IdPositions(line) : \A m \in IdPositions(line) : k <= m]

\* "CAST" in line, "HLAVA" in line (case-sensitive substring tests)
ContainsPartKeyword(line) == \E k \in DOMAIN line : line[k] = PartKeyword
ContainsHeadKeyword(line) == \E k \in DOMAIN line : line[k] = HeadKeyword

\* "o " in lower / "kterym se meni" in lower / "ze dne" in lower
HasTitleCue(line) ==
    \/ \E k \in 1..(Len(line) - 1) : Lower(line[k]) \in {"o", "tato"}
    \/ \E k \in 1..(Len(line) - 2) :
          /\ Lower(line[k]) = "kterym"
          /\ Lower(line[k + 1]) = "se"
          /\ Lower(line[k + 2]) = "meni"
    \/ \E k \in 1..(Len(line) - 1) :
          Lower(line[k]) = "ze" /\ Lower(line[k + 1]) = "dne"

TitleCandidateCueOnly(lines, j, stop, acc) ==
    LET stops == { m \in j..stop : \/ StartsWithParSign(lines[m])
                                    \/ ContainsPartKeyword(lines[m])
                                    \/ ContainsHeadKeyword(lines[m]) }
        last == IF stops = {} THEN stop
                ELSE (CHOOSE m \in stops : \A q \in stops : m <= q) - 1
        T[m \in (j - 1)..last] ==
            IF m = j - 1 THEN acc
            ELSE IF HasTitleCue(lines[m]) THEN T[m - 1] \o lines[m] ELSE T[m - 1]
    IN  IF last < j THEN acc ELSE T[last]

\* TitleCandidate without the test that ends the title (lines 440-442).
RECURSIVE TitleCandidateNoBreak(_, _, _, _)
TitleCandidateNoBreak(lines, j, stop, acc) ==
    IF j > stop THEN acc
    ELSE IF HasTitleCue(lines[j]) \/ acc # <<>>
    THEN TitleCandidateNoBreak(lines, j + 1, stop, acc \o lines[j])
    ELSE TitleCandidateNoBreak(lines, j + 1, stop, acc)

\* the loop over j (lines 438-446); acc is title_candidate_line
RECURSIVE TitleCandidate(_, _, _, _)
TitleCandidate(lines, j, stop, acc) ==
    IF j > stop THEN acc
    ELSE IF \/ StartsWithParSign(lines[j])
            \/ ContainsPartKeyword(lines[j])
            \/ ContainsHeadKeyword(lines[j])
    THEN acc
    ELSE IF HasTitleCue(lines[j]) THEN TitleCandidate(lines, j + 1, stop, acc \o lines[j])
    ELSE IF acc # <<>> THEN TitleCandidate(lines, j + 1, stop, acc \o lines[j])
    ELSE TitleCandidate(lines, j + 1, stop, acc)

\* re.sub(r"^\s*ze dne\s+\d+\.\s+\w+\s+\d{4}\s*", "", title, IGNORECASE)
StripDatePrefix(title) ==
    IF /\ Len(title) >= 5
       /\ Lower(title[1]) = "ze"
       /\ Lower(title[2]) = "dne"
       /\ title[3] \in DayTokens
       /\ title[4] \in MonthTokens
       /\ title[5] \in YearTokens
    THEN (IF title[5] = "2001." THEN <<".">> ELSE <<>>) \o SubSeq(title, 6, Len(title))
    ELSE title

\* re.sub(r"^(ZAKON|VYHLASKA|NARIZENI VLADY)\s*", "", title, IGNORECASE).strip()
StripKindPrefix(title) ==
    IF title = <<>> THEN title
    ELSE IF Lower(title[1]) \in {"zakon", "vyhlaska"} THEN Tail(title)
    ELSE IF Lower(title[1]) = "zakona" THEN <<"a">> \o Tail(title)
    ELSE IF Len(title) >= 2 /\ Lower(title[1]) = "narizeni" /\ Lower(title[2]) = "vlady"
    THEN Tail(Tail(title))
    ELSE title

CleanTitle(title) == StripKindPrefix(StripDatePrefix(title))

\* re.search(r"ze dne (\d{1,2}\. \w+ \d{4})", " ".join(lines[:10]), IGNORECASE)
DatePositions(words) ==
    { k \in 1..(Len(words) - 4) :
        /\ Lower(words[k]) = "ze"
        /\ Lower(words[k + 1]) = "dne"
        /\ words[k + 2] \in DayTokens
        /\ words[k + 3] \in MonthTokens
        /\ words[k + 4] \in YearTokens }
FirstLines(lines, n) == SubSeq(lines, 1, IF Len(lines) < n THEN Len(lines) ELSE n)
\* \d{4} takes the four digits of the year word
YearDigits(word) == IF word = "2001." THEN "2001" ELSE word
date_match_group1(words) ==
    LET k == CHOOSE p \in DatePositions(words) : \A m \in DatePositions(words) : p <= m
    IN  << words[k + 2], words[k + 3], YearDigits(words[k + 4]) >>

\* re.search(r"nabyva ucinnosti dnem\s+(.*)", line, IGNORECASE)
EffectivePositions(line) ==
    { k \in 1..(Len(line) - 3) :
        /\ Lower(line[k]) = "nabyva"
        /\ Lower(line[k + 1]) = "ucinnosti"
        /\ Lower(line[k + 2]) = "dnem" }
effective_date_match(line) == EffectivePositions(line) # {}
\* str.rstrip('.') of the last word
RStripDots(word) ==
    CASE word = "2001." -> "2001"
      [] word = "Sb." -> "Sb"
      [] word = "c." -> "c"
      [] word = "1." -> "1"
      [] word = "4." -> "4"
      [] OTHER -> word
\* effective_date_match.group(1).strip().rstrip('.')
effective_date_group1(line) ==
    LET k == CHOOSE p \in EffectivePositions(line) :
                 \A m \in EffectivePositions(line) : p <= m
        rest == SubSeq(line, k + 3, Len(line))
    IN  [rest EXCEPT ![Len(rest)] = RStripDots(@)]

\* "zakon(?:a|u|e)? c.\s*\d+/\d{4}\s*Sb." matched at word k, IGNORECASE
LawCitationAt(line, k) ==
    /\ k + 3 <= Len(line)
    /\ Lower(line[k + 1]) = "c."
    /\ line[k + 2] \in LawNumbers
    /\ Lower(line[k + 3]) = "sb."
SimplePositions(line) ==
    { k \in DOMAIN line : /\ Lower(line[k]) \in {"zakon", "zakona", "zakonu", "zakone"}
                          /\ LawCitationAt(line, k) }
\* the word after "PAR n", the optional "odst. n" and the optional "pism. x)"
ComplexCitationStart(line, k) ==
    LET a == k + 2
        b == IF a + 1 <= Len(line) /\ Lower(line[a]) = "odst." /\ line[a + 1] \in NumberTokens
             THEN a + 2 ELSE a
    IN  IF b + 1 <= Len(line) /\ Lower(line[b]) = "pism." /\ line[b + 1] \in Sub2Tokens
        THEN b + 2 ELSE b
ComplexPositions(line) ==
    { k \in 1..(Len(line) - 1) :
        /\ line[k] = ParSign
        /\ line[k + 1] \in NumberTokens
        /\ ComplexCitationStart(line, k) <= Len(line)
        /\ Lower(line[ComplexCitationStart(line, k)]) = "zakona"
        /\ LawCitationAt(line, ComplexCitationStart(line, k)) }

\* re.findall: the matches of a line from left to right
RECURSIVE InOrder(_)
InOrder(positions) ==
    IF positions = {} THEN <<>>
    ELSE LET k == CHOOSE p \in positions : \A m \in positions : p <= m
         IN  <<k>> \o InOrder(positions \ {k})
LineReferences(line) ==
    LET simple == InOrder(SimplePositions(line))
        complex == InOrder(ComplexPositions(line))
    IN  [ n \in DOMAIN simple |-> SubSeq(line, simple[n], simple[n] + 3) ]
          \o [ n \in DOMAIN complex |->
                 SubSeq(line, complex[n], ComplexCitationStart(line, complex[n]) + 3) ]

\* AppendNew without the test `ref not in metadata["references"]`.
AppendNewUnchecked(references, refs) == references \o refs

\* if ref not in metadata["references"]: metadata["references"].append(ref)
RECURSIVE AppendNew(_, _)
AppendNew(references, refs) ==
    IF refs = <<>> THEN references
    ELSE AppendNew(IF \E n \in DOMAIN references : references[n] = Head(refs)
                   THEN references ELSE Append(references, Head(refs)),
                   Tail(refs))

InitialMetadataSentinels ==
    [ law_id |-> Unknown,
      title |-> Unknown,
      effective_date |-> Unknown,
      publication_date |-> Unknown,
      enforcing_agency |-> Unknown,
      references |-> Unknown,
      source_file |-> Unknown ]

InitialMetadata ==
    [ law_id |-> Unknown,
      title |-> Unknown,
      effective_date |-> Unknown,
      publication_date |-> Unknown,
      enforcing_agency |-> Unknown,
      references |-> <<>>,
      source_file |-> <<>> ]

\* The law-id loop (lines 430-462): only the first matching line is used.
FindLawId(md, lines) ==
    LET ids == { i \in DOMAIN lines : match_id(lines[i]) }
    IN  IF ids = {} THEN md
        ELSE
          LET i == CHOOSE p \in ids : \A m \in ids : p <= m
              stop == IF (i - 1) + TitleRangeStop < Len(lines)
                      THEN (i - 1) + TitleRangeStop ELSE Len(lines)
              candidate == IF i < Len(lines) /\ ~StartsWithParSign(lines[i + 1])
                           THEN TitleCandidate(lines, i + 1, stop, <<>>)
                           ELSE <<>>
              words == FlattenLines(FirstLines(lines, PublicationDateLines))
          IN  [ md EXCEPT
                  !.law_id = << match_id_group1(lines[i]), "Sb." >>,
                  !.title = IF candidate # <<>> THEN CleanTitle(candidate) ELSE @,
                  !.publication_date =
                      IF DatePositions(words) # {} THEN date_match_group1(words) ELSE @ ]

\* The scan from the end for the effective date (lines 465-469).
FindEffectiveDate(md, lines) ==
    LET hits == { i \in DOMAIN lines : effective_date_match(lines[i]) }
    IN  IF hits = {} THEN md
        ELSE LET i == CHOOSE p \in hits : \A m \in hits : m <= p
             IN  [ md EXCEPT !.effective_date = effective_date_group1(lines[i]) ]

\* The reference loop (lines 472-484).
FindReferences(md, lines) ==
    LET R[k \in 0..Len(lines)] ==
            IF k = 0 THEN md.references
            ELSE AppendNew(R[k - 1], LineReferences(lines[k]))
    IN  [ md EXCEPT !.references = R[Len(lines)] ]

extract_metadata(lines) ==
    FindReferences(FindEffectiveDate(FindLawId(InitialMetadata, lines), lines), lines)

\* os.path.basename(pdf_path)
basename(path) == << path[Len(path)] >>

\* ------------------------------------------------------------------ state
VARIABLES
    text_lines,                         \* the argument
    line_idx,                           \* loop position, 1-based
    pc,                                 \* "loop" | "done" (returned)
    structured_content,
    current_part,
    current_head,
    current_paragraph_number,
    current_paragraph_text,
    current_subsection_level1_number,
    current_subsection_level1_text,
    current_subsection_level2_letter,
    current_subsection_level2_text,
    paragraph_line,                     \* marker line of the active pointers
    subsection_level1_line,
    subsection_level2_line,
    absorbed,                           \* lines copied into a Part/Head title
    buffered,                           \* lines appended to a text buffer
    started,                            \* marker lines that set a pointer
    metadata,                           \* pdf_to_structured_json: the metadata dict
    pdf_path,                           \* pdf_to_structured_json: its argument
    all_text_lines,                     \* pdf_to_structured_json: the extracted lines
    input_directory_exists,             \* __main__: exists and is a directory
    listing,                            \* __main__: os.listdir(input_directory)
    file_idx,                           \* __main__: position in the listing
    found_pdf_files,
    output_directory_exists,
    stdout,                             \* the messages printed so far
    outputs,                            \* the JSON files written so far
    uncaught                            \* an exception left the per-file step

vars ==
    << text_lines, line_idx, pc, structured_content, current_part, current_head,
       current_paragraph_number, current_paragraph_text,
       current_subsection_level1_number, current_subsection_level1_text,
       current_subsection_level2_letter, current_subsection_level2_text,
       paragraph_line, subsection_level1_line, subsection_level2_line,
       absorbed, buffered, started,
       metadata, pdf_path, all_text_lines,
       input_directory_exists, listing, file_idx, found_pdf_files,
       output_directory_exists, stdout, outputs, uncaught >>

structure_vars ==
    << line_idx, structured_content, current_part, current_head,
       current_paragraph_number, current_paragraph_text,
       current_subsection_level1_number, current_subsection_level1_text,
       current_subsection_level2_letter, current_subsection_level2_text,
       paragraph_line, subsection_level1_line, subsection_level2_line,
       absorbed, buffered, started >>
pipeline_vars == << metadata, pdf_path, all_text_lines >>
batch_vars ==
    << input_directory_exists, listing, file_idx, found_pdf_files, output_directory_exists, stdout,
       outputs, uncaught >>

\* The enclosing-scope variables store_previous_item and the loop share.
Ctx ==
    [ structured_content |-> structured_content,
      current_part |-> current_part,
      current_head |-> current_head,
      current_paragraph_number |-> current_paragraph_number,
      current_paragraph_text |-> current_paragraph_text,
      current_subsection_level1_number |-> current_subsection_level1_number,
      current_subsection_level1_text |-> current_subsection_level1_text,
      current_subsection_level2_letter |-> current_subsection_level2_letter,
      current_subsection_level2_text |-> current_subsection_level2_text,
      paragraph_line |-> paragraph_line,
      subsection_level1_line |-> subsection_level1_line,
      subsection_level2_line |-> subsection_level2_line ]

SetCtx(c) ==
    /\ structured_content' = c.structured_content
    /\ current_part' = c.current_part
    /\ current_head' = c.current_head
    /\ current_paragraph_number' = c.current_paragraph_number
    /\ current_paragraph_text' = c.current_paragraph_text
    /\ current_subsection_level1_number' = c.current_subsection_level1_number
    /\ current_subsection_level1_text' = c.current_subsection_level1_text
    /\ current_subsection_level2_letter' = c.current_subsection_level2_letter
    /\ current_subsection_level2_text' = c.current_subsection_level2_text
    /\ paragraph_line' = c.paragraph_line
    /\ subsection_level1_line' = c.subsection_level1_line
    /\ subsection_level2_line' = c.subsection_level2_line

\* ------------------------------------------------------------ buffer items
Str(words) == [type |-> "str", text |-> words]
IsStr(item) == item.type = "str"
IsDict(item) == item.type # "str"

\* " ".join(parts).strip() for a list of str
RECURSIVE Join(_)
Join(parts) ==
    IF parts = <<>> THEN <<>> ELSE parts[1].text \o Join(Tail(parts))

Last(s) == s[Len(s)]

\* the subsection_level2 dict built from the level-2 buffer
SubsectionLevel2Obj(c) ==
    [ type |-> "subsection_level2",
      identifier |-> c.current_subsection_level2_letter,
      text |-> Join(c.current_subsection_level2_text),
      line |-> c.subsection_level2_line ]

\* the subsection_level1 dict built from the level-1 buffer
SubsectionLevel1Obj(c) ==
    [ type |-> "subsection_level1",
      identifier |-> c.current_subsection_level1_number,
      content |-> [type |-> "list", items |-> c.current_subsection_level1_text],
      line |-> c.subsection_level1_line ]

\* para_obj; an absent "subsections" key is the empty sequence
ParagraphObj(c) ==
    [ type |-> "paragraph",
      identifier |-> <<ParSign, c.current_paragraph_number>>,
      text |-> Join(SelectSeq(c.current_paragraph_text, IsStr)),
      subsections |-> SelectSeq(c.current_paragraph_text, IsDict),
      line |-> c.paragraph_line ]

\* -------------------------------------------------- store_previous_item
\* if current_subsection_level2_text: ... (first block)
StoreSubsectionLevel2(c) ==
    IF c.current_subsection_level2_text # <<>>
    THEN LET c1 == IF c.current_subsection_level1_text = <<>>
                   THEN [c EXCEPT !.current_paragraph_text =
                                      Append(@, SubsectionLevel2Obj(c))]
                   ELSE [c EXCEPT !.current_subsection_level1_text =
                                      Append(@, SubsectionLevel2Obj(c))]
         IN  [c1 EXCEPT !.current_subsection_level2_text = <<>>,
                        !.current_subsection_level2_letter = None,
                        !.subsection_level2_line = 0]
    ELSE c

\* if current_subsection_level1_text: ... (second block)
StoreSubsectionLevel1(c) ==
    IF c.current_subsection_level1_text # <<>>
    THEN [c EXCEPT !.current_paragraph_text = Append(@, SubsectionLevel1Obj(c)),
                   !.current_subsection_level1_text = <<>>,
                   !.current_subsection_level1_number = None,
                   !.subsection_level1_line = 0]
    ELSE c

AttachParagraphPartFirst(para_obj, c) ==
    IF c.current_part # NoneDict
    THEN [c EXCEPT !.current_part.paragraphs = Append(@, para_obj)]
    ELSE IF c.current_head # NoneDict
    THEN [c EXCEPT !.current_head.paragraphs = Append(@, para_obj)]
    ELSE [c EXCEPT !.structured_content = Append(@, para_obj)]

\* if current_head: ... elif current_part: ... else: structured_content.append
AttachParagraph(para_obj, c) ==
    IF c.current_head # NoneDict
    THEN [c EXCEPT !.current_head.paragraphs = Append(@, para_obj)]
    ELSE IF c.current_part # NoneDict
    THEN [c EXCEPT !.current_part.paragraphs = Append(@, para_obj)]
    ELSE [c EXCEPT !.structured_content = Append(@, para_obj)]

\* if current_paragraph_text and current_paragraph_number: ... (third block)
\* StoreParagraph without the reset of the text buffer (line 567).
StoreParagraphKeepBuffer(c) ==
    IF c.current_paragraph_text # <<>> /\ c.current_paragraph_number # None
    THEN [AttachParagraph(ParagraphObj(c), c) EXCEPT
              !.paragraph_line = 0]
    ELSE c

StoreParagraph(c) ==
    IF c.current_paragraph_text # <<>> /\ c.current_paragraph_number # None
    THEN [AttachParagraph(ParagraphObj(c), c) EXCEPT
              !.current_paragraph_text = <<>>,
              !.current_paragraph_number = None,
              !.paragraph_line = 0]
    ELSE c

\* store_previous_item with the three stores in the opposite order.
store_previous_item_shallow_first(c) ==
    StoreSubsectionLevel2(StoreSubsectionLevel1(StoreParagraph(c)))

store_previous_item(c) ==
    StoreParagraph(StoreSubsectionLevel1(StoreSubsectionLevel2(c)))

StoreHeadToRoot(c) ==
    [c EXCEPT !.structured_content = Append(@, c.current_head)]

\* if current_part: current_part["heads"].append(current_head)
\* else: structured_content.append(current_head)
StoreHead(c) ==
    IF c.current_part # NoneDict
    THEN [c EXCEPT !.current_part.heads = Append(@, c.current_head)]
    ELSE [c EXCEPT !.structured_content = Append(@, c.current_head)]

\* if current_part: structured_content.append(current_part)
StorePart(c) ==
    IF c.current_part # NoneDict
    THEN [c EXCEPT !.structured_content = Append(@, c.current_part)]
    ELSE c

\* -------------------------------------------------------- title lookahead
NotPartHeadParagraph(line) ==
    ~(paragraph_re(line) \/ head_re(line) \/ part_re(line))

\* The positions whose text the title of the marker at position i takes.
TitleLines(lines, i) ==
    (IF i + 1 <= Len(lines) THEN {i + 1} ELSE {})
        \cup (IF i + 2 <= Len(lines) /\ NotPartHeadParagraph(lines[i + 2])
              THEN {i + 2} ELSE {})

\* part_title / head_title: the next line, plus " " + the line after it
\* unless that one matches paragraph_re, head_re or part_re
Title(lines, i) ==
    (IF i + 1 <= Len(lines) THEN lines[i + 1] ELSE <<>>)
        \o (IF i + 2 <= Len(lines) /\ NotPartHeadParagraph(lines[i + 2])
            THEN lines[i + 2] ELSE <<>>)


\* ------------------------------------------- consolidation (after the loop)
\* the loop over sub_item["content"]: runs of str joined, dicts kept
RECURSIVE ConsolidateParts(_, _, _)
ConsolidateParts(parts, new_content, current_text_segment) ==
    IF parts = <<>>
    THEN IF current_text_segment # <<>>
         THEN Append(new_content, Str(Join(current_text_segment)))
         ELSE new_content
    ELSE IF IsStr(parts[1])
    THEN ConsolidateParts(Tail(parts), new_content,
                          Append(current_text_segment, parts[1]))
    ELSE ConsolidateParts(
             Tail(parts),
             Append(IF current_text_segment # <<>>
                    THEN Append(new_content, Str(Join(current_text_segment)))
                    ELSE new_content,
                    parts[1]),
             <<>>)

\* new_content[0] if len(new_content) == 1 and it is a str else new_content
ConsolidateContent(content) ==
    IF content.type = "list"
    THEN LET new_content == ConsolidateParts(content.items, <<>>, <<>>)
         IN  IF Len(new_content) = 1 /\ IsStr(new_content[1])
             THEN new_content[1]
             ELSE [type |-> "list", items |-> new_content]
    ELSE content

ConsolidateSubItem(sub_item) ==
    IF sub_item.type = "subsection_level1"
    THEN [sub_item EXCEPT !.content = ConsolidateContent(@)]
    ELSE sub_item

\* for item in structured_content: if item is a paragraph with subsections
ConsolidateItem(item) ==
    IF item.type = "paragraph"
    THEN [item EXCEPT !.subsections =
              [k \in DOMAIN @ |-> ConsolidateSubItem(@[k])]]
    ELSE item

Consolidate(content) == [k \in DOMAIN content |-> ConsolidateItem(content[k])]

\* ------------------------------------------------------------------- Init
\* text_lines is the caller's cleaned_lines: stripped, non-empty lines, so
\* the loop's test for an empty stripped line never holds.
\* The locals of structure_text_content (lines 500-508).
StructureInit ==
    /\ line_idx = 1
    /\ structured_content = <<>>
    /\ current_part = NoneDict
    /\ current_head = NoneDict
    /\ current_paragraph_number = None
    /\ current_paragraph_text = <<>>
    /\ current_subsection_level1_number = None
    /\ current_subsection_level1_text = <<>>
    /\ current_subsection_level2_letter = None
    /\ current_subsection_level2_text = <<>>
    /\ paragraph_line = 0
    /\ subsection_level1_line = 0
    /\ subsection_level2_line = 0
    /\ absorbed = {}
    /\ buffered = {}
    /\ started = {}

\* The part of the state the conversion pipeline does not use.
BatchIdle ==
    /\ input_directory_exists = FALSE
    /\ listing = <<>>
    /\ file_idx = 1
    /\ found_pdf_files = FALSE
    /\ output_directory_exists = TRUE
    /\ stdout = <<>>
    /\ outputs = {}
    /\ uncaught = FALSE

\* The part of the state a bare call of structure_text_content does not use.
PipelineIdle ==
    /\ metadata = NoneDict
    /\ pdf_path = <<>>
    /\ all_text_lines = <<>>

Init ==
    /\ text_lines \in SeqsUpTo(MaxLines)
    /\ pc = "loop"
    /\ StructureInit
    /\ PipelineIdle
    /\ BatchIdle

AtLine(kind) ==
    /\ pc = "loop"
    /\ line_idx <= Len(text_lines)
    /\ Kind(text_lines[line_idx]) = kind

Advance ==
    /\ line_idx' = line_idx + 1
    /\ UNCHANGED <<text_lines, pc, pipeline_vars, batch_vars>>

\* ------------------------------------------------------------ Part branch
PartObj(lines, i) ==
    [ type |-> "part",
      identifier |-> <<PartKeyword, part_group1(lines[i])>>,
      title |-> Title(lines, i),
      heads |-> <<>>,
      paragraphs |-> <<>>,
      line |-> i ]

PartBranchKeepHead(c, lines, i) ==
    LET c1 == store_previous_item(c)
        c2 == IF c1.current_head # NoneDict THEN StoreHead(c1) ELSE c1
        c3 == StorePart(c2)
    IN  [c3 EXCEPT !.current_part = PartObj(lines, i)]

\* store_previous_item(); store the previous head and part; the new part
PartBranch(c, lines, i) ==
    LET c1 == store_previous_item(c)
        c2 == IF c1.current_head # NoneDict
              THEN [StoreHead(c1) EXCEPT !.current_head = NoneDict]
              ELSE c1
        c3 == StorePart(c2)
    IN  [c3 EXCEPT !.current_part = PartObj(lines, i)]

PartLine ==
    /\ AtLine("part")
    /\ SetCtx(PartBranch(Ctx, text_lines, line_idx))
    /\ absorbed' = absorbed \cup TitleLines(text_lines, line_idx)
    /\ started' = started \cup {line_idx}
    /\ UNCHANGED buffered
    /\ Advance

\* ------------------------------------------------------------ Head branch
HeadObj(lines, i) ==
    [ type |-> "head",
      identifier |-> <<HeadKeyword, head_group1(lines[i])>>,
      title |-> Title(lines, i),
      paragraphs |-> <<>>,
      line |-> i ]

\* store_previous_item(); store the previous head; the new head
HeadBranch(c, lines, i) ==
    LET c1 == store_previous_item(c)
        c2 == IF c1.current_head # NoneDict THEN StoreHead(c1) ELSE c1
    IN  [c2 EXCEPT !.current_head = HeadObj(lines, i)]

HeadLine ==
    /\ AtLine("head")
    /\ SetCtx(HeadBranch(Ctx, text_lines, line_idx))
    /\ absorbed' = absorbed \cup TitleLines(text_lines, line_idx)
    /\ started' = started \cup {line_idx}
    /\ UNCHANGED buffered
    /\ Advance

\* ------------------------------------------------------- Paragraph branch
\* IsParagraphTitle with the word limit one lower.
IsParagraphTitleUnderLimit(next_line) ==
    ~(\/ paragraph_re(next_line)
      \/ subsection_l1_re(next_line)
      \/ subsection_l2_re(next_line)
      \/ part_re(next_line)
      \/ head_re(next_line)
      \/ StartsWithParSign(next_line)
      \/ StartsWithParen(next_line)
      \/ StartsWithCl(next_line)
      \/ Len(next_line) >= MaxTitleWords)

\* the condition under which the next line is taken as the paragraph title
IsParagraphTitle(next_line) ==
    ~(\/ paragraph_re(next_line)
      \/ subsection_l1_re(next_line)
      \/ subsection_l2_re(next_line)
      \/ part_re(next_line)
      \/ head_re(next_line)
      \/ StartsWithParSign(next_line)
      \/ StartsWithParen(next_line)
      \/ StartsWithCl(next_line)
      \/ Len(next_line) > MaxTitleWords)

MergesNextLine(lines, i) ==
    i + 1 <= Len(lines) /\ IsParagraphTitle(lines[i + 1])

\* current_paragraph_text[-1] += " " + next_line, or append(next_line)
MergeTitle(buffer, next_line) ==
    IF buffer # <<>> /\ IsStr(Last(buffer))
    THEN [buffer EXCEPT ![Len(buffer)] = Str(@.text \o next_line)]
    ELSE Append(buffer, Str(next_line))

ParagraphBranch(c, lines, i) ==
    LET c1 == store_previous_item(c)
        text_after_identifier == Tail3(lines[i])
        c2 == [c1 EXCEPT !.current_paragraph_number = paragraph_group1(lines[i]),
                         !.paragraph_line = i,
                         !.current_paragraph_text =
                             IF text_after_identifier # <<>>
                             THEN Append(@, Str(text_after_identifier))
                             ELSE @]
    IN  IF MergesNextLine(lines, i)
        THEN [c2 EXCEPT !.current_paragraph_text = MergeTitle(@, lines[i + 1])]
        ELSE c2

ParagraphLine ==
    /\ AtLine("paragraph")
    /\ SetCtx(ParagraphBranch(Ctx, text_lines, line_idx))
    /\ buffered' = IF MergesNextLine(text_lines, line_idx)
                   THEN buffered \cup {line_idx + 1} ELSE buffered
    /\ started' = started \cup {line_idx}
    /\ UNCHANGED absorbed
    /\ Advance


\* --------------------------------------------------- Subsection-L1 branch
\* The level-1 branch running the whole of store_previous_item.
SubsectionLevel1BranchFullFlush(c, lines, i) ==
    LET c2 == store_previous_item(c)
        text_after_identifier == Tail2(lines[i])
    IN  [c2 EXCEPT !.current_subsection_level1_number = subsection_l1_group1(lines[i]),
                   !.subsection_level1_line = i,
                   !.current_subsection_level1_text =
                       IF text_after_identifier # <<>>
                       THEN <<Str(text_after_identifier)>>
                       ELSE <<>>]

\* store the previous level-2 and level-1 subsection; the new level-1 one
SubsectionLevel1Branch(c, lines, i) ==
    LET c1 == StoreSubsectionLevel2(c)
        c2 == IF c1.current_subsection_level1_text # <<>>
              THEN [c1 EXCEPT !.current_paragraph_text =
                                  Append(@, SubsectionLevel1Obj(c1))]
              ELSE c1
        text_after_identifier == Tail2(lines[i])
    IN  [c2 EXCEPT !.current_subsection_level1_number = subsection_l1_group1(lines[i]),
                   !.subsection_level1_line = i,
                   !.current_subsection_level1_text =
                       IF text_after_identifier # <<>>
                       THEN <<Str(text_after_identifier)>>
                       ELSE <<>>]

SubsectionLevel1Line ==
    /\ AtLine("subsection_level1")
    /\ SetCtx(SubsectionLevel1Branch(Ctx, text_lines, line_idx))
    /\ started' = started \cup {line_idx}
    /\ UNCHANGED <<absorbed, buffered>>
    /\ Advance

\* --------------------------------------------------- Subsection-L2 branch
\* store the previous level-2 subsection in the level-1 buffer if a level-1
\* number is set, else in the paragraph buffer; the new level-2 one
SubsectionLevel2Branch(c, lines, i) ==
    LET c1 == IF c.current_subsection_level2_text # <<>>
              THEN IF c.current_subsection_level1_number # None
                   THEN [c EXCEPT !.current_subsection_level1_text =
                                      Append(@, SubsectionLevel2Obj(c))]
                   ELSE [c EXCEPT !.current_paragraph_text =
                                      Append(@, SubsectionLevel2Obj(c))]
              ELSE c
        text_after_identifier == Tail2(lines[i])
    IN  [c1 EXCEPT !.current_subsection_level2_letter = subsection_l2_group1(lines[i]),
                   !.subsection_level2_line = i,
                   !.current_subsection_level2_text =
                       IF text_after_identifier # <<>>
                       THEN <<Str(text_after_identifier)>>
                       ELSE <<>>]

SubsectionLevel2Line ==
    /\ AtLine("subsection_level2")
    /\ SetCtx(SubsectionLevel2Branch(Ctx, text_lines, line_idx))
    /\ started' = started \cup {line_idx}
    /\ UNCHANGED <<absorbed, buffered>>
    /\ Advance

\* ------------------------------------------------------ plain-text branch
TextBranchFallback(c, line) ==
    IF c.current_subsection_level2_letter # None
    THEN [c EXCEPT !.current_subsection_level2_text = Append(@, Str(line))]
    ELSE IF c.current_subsection_level1_number # None
    THEN [c EXCEPT !.current_subsection_level1_text = Append(@, Str(line))]
    ELSE IF c.current_paragraph_number # None
    THEN [c EXCEPT !.current_paragraph_text = Append(@, Str(line))]
    ELSE IF c.current_part # NoneDict /\ c.current_part.paragraphs # <<>>
    THEN [c EXCEPT !.current_part.paragraphs[Len(c.current_part.paragraphs)].text =
                       @ \o line]
    ELSE c

\* TextBranch keeping a line that arrives while no pointer is set.
TextBranchRootText(c, line) ==
    IF c.current_subsection_level2_letter # None
    THEN [c EXCEPT !.current_subsection_level2_text = Append(@, Str(line))]
    ELSE IF c.current_subsection_level1_number # None
    THEN [c EXCEPT !.current_subsection_level1_text = Append(@, Str(line))]
    ELSE [c EXCEPT !.current_paragraph_text = Append(@, Str(line))]

\* Append text to the current active item (level 2, else level 1, else the
\* paragraph); with no pointer set the line is dropped
TextBranch(c, line) ==
    IF c.current_subsection_level2_letter # None
    THEN [c EXCEPT !.current_subsection_level2_text = Append(@, Str(line))]
    ELSE IF c.current_subsection_level1_number # None
    THEN [c EXCEPT !.current_subsection_level1_text = Append(@, Str(line))]
    ELSE IF c.current_paragraph_number # None
    THEN [c EXCEPT !.current_paragraph_text = Append(@, Str(line))]
    ELSE c

TextLine ==
    /\ AtLine("text")
    /\ SetCtx(TextBranch(Ctx, text_lines[line_idx]))
    /\ buffered' = IF TextBranch(Ctx, text_lines[line_idx]) # Ctx
                   THEN buffered \cup {line_idx} ELSE buffered
    /\ UNCHANGED <<absorbed, started>>
    /\ Advance

\* ----------------------------------------------------------- after the loop
\* Store any remaining items, consolidate, return structured_content
FinalStore(c) ==
    LET c1 == store_previous_item(c)
        c2 == IF c1.current_head # NoneDict THEN StoreHead(c1) ELSE c1
        c3 == StorePart(c2)
    IN  [c3 EXCEPT !.structured_content = Consolidate(@)]

EndOfInput ==
    /\ pc = "loop"
    /\ line_idx > Len(text_lines)
    /\ SetCtx(FinalStore(Ctx))
    /\ pc' = "done"
    /\ UNCHANGED <<text_lines, line_idx, absorbed, buffered, started,
                   pipeline_vars, batch_vars>>

Next ==
    \/ PartLine
    \/ HeadLine
    \/ ParagraphLine
    \/ SubsectionLevel1Line
    \/ SubsectionLevel2Line
    \/ TextLine
    \/ EndOfInput

Spec == Init /\ [][Next]_vars

\* ------------------------------------------ documents around a Paragraph
\* The lines that decide the title test of the Paragraph branch (lines
\* 639-655): plain lines of ten and of eleven words, lines that start with
\* the paragraph sign, a parenthesis or the article abbreviation without
\* being markers, and one marker of each level.
TenWords == <<"w", "w", "w", "w", "w", "w", "w", "w", "w", "w">>
HeuristicLines ==
    { <<PartKeyword, "I">>,
      <<HeadKeyword, "I">>,
      <<ParSign, "1">>,
      <<ParSign, "2", "x">>,
      <<"(1)">>,
      <<"a)", "z">>,
      <<"t">>,
      TenWords,
      LongLine,
      <<"PARabc">>,
      <<"(x)", "u">>,
      <<"cl.", "5">>,
      <<"Cl.", "5">> }

RECURSIVE HeuristicSeqsUpTo(_)
HeuristicSeqsUpTo(n) ==
    IF n = 0 THEN { <<>> }
    ELSE LET shorter == HeuristicSeqsUpTo(n - 1)
         IN  shorter \cup { Append(s, l) : s \in { q \in shorter : Len(q) = n - 1 },
                                           l \in HeuristicLines }

InitHeuristic ==
    /\ text_lines \in HeuristicSeqsUpTo(MaxHeuristicLines)
    /\ pc = "loop"
    /\ StructureInit
    /\ PipelineIdle
    /\ BatchIdle

SpecHeuristic == InitHeuristic /\ [][Next]_vars

\* ----------------------------------------- the conversion of one document
\* pdf_to_structured_json from the point where cleaned_lines is computed
\* (lines 825-837); text_lines is cleaned_lines.
PdfPaths == { <<"e-sbirka_data", "a.pdf">>, <<"e-sbirka_data", "B.PDF">> }

InitMeta ==
    /\ text_lines \in MetaSeqsUpTo(MaxMetaLines)
    /\ pc = "extract_metadata"
    /\ StructureInit
    /\ metadata = NoneDict
    /\ pdf_path \in PdfPaths
    /\ all_text_lines = <<>>
    /\ BatchIdle

\* metadata = extract_metadata(cleaned_lines)
ExtractMetadata ==
    /\ pc = "extract_metadata"
    /\ metadata' = extract_metadata(text_lines)
    /\ pc' = "source_file"
    /\ UNCHANGED <<text_lines, pdf_path, all_text_lines, structure_vars, batch_vars>>

\* metadata["source_file"] = os.path.basename(pdf_path)
SetSourceFile ==
    /\ pc = "source_file"
    /\ metadata' = [metadata EXCEPT !.source_file = basename(pdf_path)]
    /\ pc' = "loop"
    /\ UNCHANGED <<text_lines, pdf_path, all_text_lines, structure_vars, batch_vars>>

output_data ==
    [ metadata |-> metadata,
      text_content |-> text_lines,
      structured_text |-> structured_content ]

NextMeta ==
    \/ ExtractMetadata
    \/ SetSourceFile
    \/ Next

SpecMeta == InitMeta /\ [][NextMeta]_vars

\* ------------------------------------------- extract_metadata on its own
\* Documents long enough to pass the four lines the title is looked for in:
\* an identifier line, lines with and without a title cue, Part lines in
\* capitals and in small letters, and a Paragraph line.
TitleDocLines ==
    { <<"101/2000", "Sb.">>,
      <<"ZAKON", "o", "ochrane">>,
      <<"Sbirka">>,
      <<PartKeyword, "I">>,
      <<"cast", "I">>,
      <<ParSign, "1">> }

RECURSIVE TitleDocsUpTo(_)
TitleDocsUpTo(n) ==
    IF n = 0 THEN { <<>> }
    ELSE LET shorter == TitleDocsUpTo(n - 1)
         IN  shorter \cup { Append(s, l) : s \in { q \in shorter : Len(q) = n - 1 },
                                           l \in TitleDocLines }

InitTitle ==
    /\ text_lines \in TitleDocsUpTo(MaxTitleLines)
    /\ pc = "extract_metadata"
    /\ StructureInit
    /\ metadata = NoneDict
    /\ pdf_path = <<"e-sbirka_data", "a.pdf">>
    /\ all_text_lines = <<>>
    /\ BatchIdle

SpecTitle == InitTitle /\ [][ExtractMetadata]_vars

\* ------------------------------------ the conversion, cleaning included
\* An extracted line is its words and whether white space surrounds them.
Raw(pad, words) == [ pad |-> pad, words |-> words ]

PageMarker == <<"---", "PAGE", "1", "---">>

RawLines ==
    { Raw(FALSE, <<"101/2000", "Sb.">>),
      Raw(FALSE, <<PartKeyword, "I">>),
      Raw(FALSE, <<HeadKeyword, "I">>),
      Raw(FALSE, <<ParSign, "1">>),
      Raw(FALSE, <<"(1)", "podle", "zakona", "c.", "7/1999", "Sb.">>),
      Raw(FALSE, <<"a)", "nabyva", "ucinnosti", "dnem", "1.", "ledna", "2001.">>),
      Raw(TRUE, <<"Sbirka">>),
      Raw(FALSE, <<>>),
      Raw(TRUE, <<>>),
      Raw(FALSE, <<"Strana", "3">>),
      Raw(FALSE, PageMarker),
      Raw(TRUE, PageMarker) }

RECURSIVE RawSeqsUpTo(_)
RawSeqsUpTo(n) ==
    IF n = 0 THEN { <<>> }
    ELSE LET shorter == RawSeqsUpTo(n - 1)
         IN  shorter \cup { Append(s, l) : s \in { q \in shorter : Len(q) = n - 1 },
                                           l \in RawLines }

\* re.match(r"^-+ PAGE \d+ -+$", line): on the line as extracted
IsPageMarker(line) == ~line.pad /\ line.words = PageMarker
\* line.strip()
strip(line) == line.words
\* re.fullmatch(r"strana \d+", stripped_line, re.IGNORECASE)
IsPageNumber(stripped_line) ==
    /\ Len(stripped_line) = 2
    /\ stripped_line[1] \in {"strana", "Strana"}
    /\ stripped_line[2] \in {"1", "2", "3"}

NotPageMarker(line) == ~IsPageMarker(line)
NotPageNumber(stripped_line) == ~IsPageNumber(stripped_line)
NotEmpty(stripped_line) == stripped_line # <<>>

StrippedLines(lines) == [ k \in DOMAIN lines |-> strip(lines[k]) ]

cleaned_lines_keep_empty(lines) ==
    SelectSeq(StrippedLines(SelectSeq(lines, NotPageMarker)), NotPageNumber)

\* lines 789-819: page markers removed, lines stripped, "strana N" lines
\* and empty lines removed
cleaned_lines(lines) ==
    SelectSeq(SelectSeq(StrippedLines(SelectSeq(lines, NotPageMarker)), NotPageNumber),
              NotEmpty)

InitConvert ==
    /\ all_text_lines \in RawSeqsUpTo(MaxRawLines)
    /\ text_lines = <<>>
    /\ pc = "clean"
    /\ StructureInit
    /\ metadata = NoneDict
    /\ pdf_path = <<"e-sbirka_data", "a.pdf">>
    /\ BatchIdle

CleanLines ==
    /\ pc = "clean"
    /\ text_lines' = cleaned_lines(all_text_lines)
    /\ pc' = "extract_metadata"
    /\ UNCHANGED <<metadata, pdf_path, all_text_lines, structure_vars, batch_vars>>

NextConvert ==
    \/ CleanLines
    \/ NextMeta

SpecConvert == InitConvert /\ [][NextConvert]_vars

\* ------------------------------------------------------------ type sanity
TypeOK ==
    /\ pc \in {"loop", "done"}
    /\ line_idx \in 1..(Len(text_lines) + 1)
    /\ current_paragraph_number \in NumberTokens \cup {None}
    /\ current_subsection_level1_number \in {"1", "2", None}
    /\ current_subsection_level2_letter \in {"a", "b", None}


\* ------------------------------------------------------ the batch driver
\* The __main__ block (lines 847-883).  What fitz and json.dump do with a
\* file is the environment's choice: each PDF of the listing takes one of
\* the four outcomes of pdf_to_structured_json.
FileNames == {"a.pdf", "B.PDF", "c.pdf", "notes.txt"}

RECURSIVE Listings(_)
Listings(n) ==
    IF n = 0 THEN { <<>> }
    ELSE LET shorter == Listings(n - 1)
         IN  shorter \cup { Append(l, f) : l \in { q \in shorter : Len(q) = n - 1 },
                                           f \in FileNames }

\* os.listdir names every entry once
NoRepeats(l) == \A j, k \in DOMAIN l : l[j] = l[k] => j = k

\* filename.lower().endswith(".pdf")
IsPdf(filename) ==
    (IF filename = "B.PDF" THEN "b.pdf" ELSE filename) \in {"a.pdf", "b.pdf", "c.pdf"}

\* os.path.splitext(filename)[0] + ".json"
output_json_filename(filename) ==
    CASE filename = "a.pdf" -> "a.json"
      [] filename = "B.PDF" -> "B.json"
      [] filename = "c.pdf" -> "c.json"
      [] filename = "notes.txt" -> "notes.json"

input_directory == "e-sbirka_data"
output_directory == "output"
input_pdf_path(filename) == << input_directory, filename >>
output_json_path(filename) == << output_directory, output_json_filename(filename) >>

\* print(f"<text> ... {path} ...")
Say(text, path) == [ text |-> text, path |-> path ]

InitBatch ==
    /\ input_directory_exists \in BOOLEAN
    /\ listing \in IF input_directory_exists
                   THEN { l \in Listings(MaxFiles) : NoRepeats(l) }
                   ELSE { <<>> }
    /\ output_directory_exists \in BOOLEAN
    /\ pc = "main"
    /\ file_idx = 1
    /\ found_pdf_files = FALSE
    /\ stdout = <<>>
    /\ outputs = {}
    /\ uncaught = FALSE
    /\ text_lines = <<>>
    /\ StructureInit
    /\ PipelineIdle

CreatedMessage ==
    IF output_directory_exists THEN <<>>
    ELSE << Say("Created output directory", <<output_directory>>) >>

\* lines 852-859: the input directory is missing
InputDirectoryMissing ==
    /\ pc = "main"
    /\ ~input_directory_exists
    /\ stdout' = stdout \o CreatedMessage
                   \o << Say("Error: Input directory not found", <<input_directory>>),
                         Say("Please ensure the directory exists", <<>>),
                         Say("Script finished.", <<>>) >>
    /\ output_directory_exists' = TRUE
    /\ pc' = "finished"
    /\ UNCHANGED <<input_directory_exists, listing, file_idx, found_pdf_files, outputs, uncaught,
                   text_lines, structure_vars, pipeline_vars>>

\* lines 852-862: the scan starts
StartScan ==
    /\ pc = "main"
    /\ input_directory_exists
    /\ stdout' = stdout \o CreatedMessage
                   \o << Say("Scanning for PDF files", <<input_directory>>) >>
    /\ output_directory_exists' = TRUE
    /\ pc' = "files"
    /\ UNCHANGED <<input_directory_exists, listing, file_idx, found_pdf_files, outputs, uncaught,
                   text_lines, structure_vars, pipeline_vars>>

AtFile ==
    /\ pc = "files"
    /\ file_idx <= Len(listing)

\* line 864: not a PDF
SkipFile ==
    /\ AtFile
    /\ ~IsPdf(listing[file_idx])
    /\ file_idx' = file_idx + 1
    /\ UNCHANGED <<input_directory_exists, listing, found_pdf_files, output_directory_exists, stdout, outputs,
                   uncaught, pc, text_lines, structure_vars, pipeline_vars>>

\* lines 865-872, then what the call printed
Processed(messages) ==
    /\ AtFile
    /\ IsPdf(listing[file_idx])
    /\ found_pdf_files' = TRUE
    /\ stdout' = stdout
                   \o << Say("Processing", input_pdf_path(listing[file_idx])) >>
                   \o messages
    /\ file_idx' = file_idx + 1
    /\ UNCHANGED <<input_directory_exists, listing, output_directory_exists, pc, text_lines, structure_vars,
                   pipeline_vars>>

\* fitz.open raises: caught at 777, the call returns, line 876 prints
OpenFails ==
    /\ Processed(<< Say("Error opening PDF", input_pdf_path(listing[file_idx])),
                    Say("Successfully processed", input_pdf_path(listing[file_idx])) >>)
    /\ UNCHANGED <<outputs, uncaught>>

ProcessingRaisesUncaught ==
    /\ AtFile
    /\ IsPdf(listing[file_idx])
    /\ found_pdf_files' = TRUE
    /\ stdout' = Append(stdout, Say("Processing", input_pdf_path(listing[file_idx])))
    /\ uncaught' = TRUE
    /\ pc' = "crashed"
    /\ UNCHANGED <<input_directory_exists, listing, file_idx, output_directory_exists, outputs, text_lines,
                   structure_vars, pipeline_vars>>

\* an exception between lines 781 and 837 leaves the call: caught at 877
ProcessingRaises ==
    /\ Processed(<< Say("Error processing file", input_pdf_path(listing[file_idx])) >>)
    /\ UNCHANGED <<outputs, uncaught>>

\* open(json_path) or json.dump raises: caught at 843, line 876 prints
WriteFails ==
    /\ Processed(<< Say("Error writing JSON", output_json_path(listing[file_idx])),
                    Say("Successfully processed", input_pdf_path(listing[file_idx])) >>)
    /\ UNCHANGED <<outputs, uncaught>>

\* the record is written (lines 840-842), line 876 prints
Converted ==
    /\ Processed(<< Say("Successfully converted", input_pdf_path(listing[file_idx])),
                    Say("Successfully processed", input_pdf_path(listing[file_idx])) >>)
    /\ outputs' = outputs \cup { output_json_path(listing[file_idx]) }
    /\ UNCHANGED uncaught

\* lines 880-883
ScriptFinished ==
    /\ pc = "files"
    /\ file_idx > Len(listing)
    /\ stdout' = stdout
                   \o (IF found_pdf_files THEN <<>>
                       ELSE << Say("No PDF files found", <<input_directory>>) >>)
                   \o << Say("Script finished.", <<>>) >>
    /\ pc' = "finished"
    /\ UNCHANGED <<input_directory_exists, listing, file_idx, found_pdf_files, output_directory_exists, outputs,
                   uncaught, text_lines, structure_vars, pipeline_vars>>

NextBatch ==
    \/ InputDirectoryMissing
    \/ StartScan
    \/ SkipFile
    \/ OpenFails
    \/ ProcessingRaises
    \/ WriteFails
    \/ Converted
    \/ ScriptFinished

SpecBatch == InitBatch /\ [][NextBatch]_vars

\* ======================================================================
\* Reading the forest
\* ======================================================================
Range(seq) == { seq[k] : k \in DOMAIN seq }
LineNumbers == 1..Len(text_lines)
LinesOfKind(kind) == { i \in LineNumbers : Kind(text_lines[i]) = kind }
Done == pc = "done"

PartsIn(root, part) ==
    { n \in Range(root) : n.type = "part" } \cup ({part} \ {NoneDict})
HeadsIn(root, part, head) ==
    { n \in Range(root) : n.type = "head" }
        \cup UNION { Range(p.heads) : p \in PartsIn(root, part) }
        \cup ({head} \ {NoneDict})
ParagraphsIn(root, part, head) ==
    { n \in Range(root) : n.type = "paragraph" }
        \cup UNION { Range(p.paragraphs) : p \in PartsIn(root, part) }
        \cup UNION { Range(h.paragraphs) : h \in HeadsIn(root, part, head) }

OutputParts == PartsIn(structured_content, NoneDict)
OutputHeads == HeadsIn(structured_content, NoneDict, NoneDict)
OutputParagraphs == ParagraphsIn(structured_content, NoneDict, NoneDict)

\* The places (container line, child sequence, position) at which the node
\* of marker line id is attached; the root is container 0.
SeqPlaces(id, container, field, seq) ==
    { <<container, field, k>> : k \in { j \in DOMAIN seq : seq[j].line = id } }
Places(id, root, part, head) ==
    SeqPlaces(id, 0, "root", root)
        \cup UNION { SeqPlaces(id, p.line, "heads", p.heads)
                       \cup SeqPlaces(id, p.line, "paragraphs", p.paragraphs)
                     : p \in PartsIn(root, part) }
        \cup UNION { SeqPlaces(id, h.line, "paragraphs", h.paragraphs)
                     : h \in HeadsIn(root, part, head) }

\* Number of occurrences of the node of marker line id in a sequence of
\* items and, recursively, in their child sequences.
RECURSIVE OccSeq(_, _)
OccNode(id, n) ==
    IF n.type \in {"str", "none"} THEN 0
    ELSE (IF n.line = id THEN 1 ELSE 0)
         + (IF n.type = "part" THEN OccSeq(id, n.heads) + OccSeq(id, n.paragraphs)
            ELSE IF n.type = "head" THEN OccSeq(id, n.paragraphs)
            ELSE IF n.type = "paragraph" THEN OccSeq(id, n.subsections)
            ELSE IF n.type = "subsection_level1" /\ n.content.type = "list"
                 THEN OccSeq(id, n.content.items)
            ELSE 0)
OccSeq(id, seq) ==
    IF seq = <<>> THEN 0 ELSE OccNode(id, seq[1]) + OccSeq(id, Tail(seq))

\* Nodes of one type in a sequence of items and below it.
RECURSIVE CountSeq(_, _)
CountNode(type, n) ==
    IF n.type = "str" THEN 0
    ELSE (IF n.type = type THEN 1 ELSE 0)
         + (IF n.type = "part" THEN CountSeq(type, n.heads) + CountSeq(type, n.paragraphs)
            ELSE IF n.type = "head" THEN CountSeq(type, n.paragraphs)
            ELSE IF n.type = "paragraph" THEN CountSeq(type, n.subsections)
            ELSE IF n.type = "subsection_level1" /\ n.content.type = "list"
                 THEN CountSeq(type, n.content.items)
            ELSE 0)
CountSeq(type, seq) ==
    IF seq = <<>> THEN 0 ELSE CountNode(type, seq[1]) + CountSeq(type, Tail(seq))

\* The nodes of a child sequence stand in the order of their marker lines,
\* here and in every sequence below.
Increasing(seq) ==
    LET nodes == SelectSeq(seq, IsDict)
    IN  \A j, k \in DOMAIN nodes : j < k => nodes[j].line < nodes[k].line
RECURSIVE OrderedSeq(_)
OrderedNode(n) ==
    IF n.type = "part" THEN OrderedSeq(n.heads) /\ OrderedSeq(n.paragraphs)
    ELSE IF n.type = "head" THEN OrderedSeq(n.paragraphs)
    ELSE IF n.type = "paragraph" THEN OrderedSeq(n.subsections)
    ELSE IF n.type = "subsection_level1" /\ n.content.type = "list"
         THEN OrderedSeq(n.content.items)
    ELSE TRUE
OrderedSeq(seq) ==
    Increasing(seq) /\ \A k \in DOMAIN seq : OrderedNode(seq[k])

\* The text a manual trace attributes to the paragraph of marker line m: the
\* inline text of the marker line, then the plain-text lines that follow it
\* up to the next marker.
RECURSIVE PlainRun(_, _)
PlainRun(lines, i) ==
    IF i <= Len(lines) /\ Kind(lines[i]) = "text"
    THEN lines[i] \o PlainRun(lines, i + 1)
    ELSE <<>>
ExpectedText(lines, m) == Tail3(lines[m]) \o PlainRun(lines, m + 1)

\* ======================================================================
\* Claims
\* ======================================================================

\* C1 (Scenario 1 and its general form): a Paragraph marker line with no
\* inline text followed by one short plain-text line yields exactly one
\* Paragraph with that identifier, whose text is that line once, and no
\* subsections.
C1_Scenario1 ==
    ( /\ Done
      /\ Len(text_lines) = 2
      /\ paragraph_re(text_lines[1]) /\ Tail3(text_lines[1]) = <<>>
      /\ Kind(text_lines[2]) = "text" /\ Len(text_lines[2]) <= MaxTitleWords )
    => structured_content =
           << [ type |-> "paragraph",
                identifier |-> <<ParSign, paragraph_group1(text_lines[1])>>,
                text |-> text_lines[2],
                subsections |-> <<>>,
                line |-> 1 ] >>

\* C2 (text preservation): the text of every Paragraph of the output is the
\* inline marker text followed by the plain-text lines that belong to it,
\* each once and in document order.
C2_TextPreservation ==
    Done => \A p \in OutputParagraphs : p.text = ExpectedText(text_lines, p.line)

\* C3 (flush completeness): at every level the output holds as many nodes
\* as the input has marker lines of that level.
C3_FlushCompleteness ==
    Done => \A kind \in {"part", "head", "paragraph",
                         "subsection_level1", "subsection_level2"} :
                CountSeq(kind, structured_content) = Cardinality(LinesOfKind(kind))

\* C4: after a marker line of level L has been processed, no deeper pointer
\* set before it is still set: none of paragraph / level-1 / level-2 after a
\* Part or Head marker, neither level-1 nor level-2 after a Paragraph
\* marker, no level-2 after a level-1 marker.
C4_DeeperLevelsCleared ==
    (pc = "loop" /\ line_idx > 1) =>
        LET kind == Kind(text_lines[line_idx - 1])
        IN  /\ kind \in {"part", "head"} =>
                /\ current_paragraph_number = None
                /\ current_subsection_level1_number = None
                /\ current_subsection_level2_letter = None
            /\ kind = "paragraph" =>
                /\ current_subsection_level1_number = None
                /\ current_subsection_level2_letter = None
            /\ kind = "subsection_level1" =>
                current_subsection_level2_letter = None

\* C5 (uniqueness): no node occurs twice, neither in the output nor, while
\* the loop runs, in the forest under construction (the root, the active
\* Part and Head, the paragraph and level-1 buffers); every Part and Head
\* of the input is in the output exactly once.
C5_NoNodeTwice ==
    /\ \A i \in LineNumbers :
          OccSeq(i, structured_content)
            + (IF Done THEN 0
               ELSE OccSeq(i, <<current_part, current_head>>)
                    + OccSeq(i, current_paragraph_text)
                    + OccSeq(i, current_subsection_level1_text)) <= 1
    /\ Done => \A i \in LinesOfKind("part") \cup LinesOfKind("head") :
                  OccSeq(i, structured_content) = 1

C5_Witness ==
    /\ Done
    /\ \E p \in OutputParts : \E k \in DOMAIN p.heads :
          \E j \in DOMAIN p.heads[k].paragraphs :
              p.heads[k].paragraphs[j].subsections # <<>>

\* C6 (document order): in every child sequence of the output the nodes
\* stand in the order of their marker lines.
C6_DocumentOrder == Done => OrderedSeq(structured_content)

\* C7 (attachment precedence): a Paragraph that a step attaches is appended
\* once, to the paragraphs of the Head active before the step if there is
\* one, else to those of the active Part if there is one, else to the root.
ParagraphTarget ==
    IF current_head # NoneDict THEN <<current_head.line, "paragraphs">>
    ELSE IF current_part # NoneDict THEN <<current_part.line, "paragraphs">>
    ELSE <<0, "root">>
C7_ParagraphAttachment ==
    [][ \A i \in LinesOfKind("paragraph") :
          ( /\ Places(i, structured_content, current_part, current_head) = {}
            /\ Places(i, structured_content', current_part', current_head') # {} )
          => LET places == Places(i, structured_content', current_part', current_head')
             IN  /\ Cardinality(places) = 1
                 /\ \A pl \in places : <<pl[1], pl[2]>> = ParagraphTarget ]_vars

C7_Witness ==
    /\ Done
    /\ \E p \in OutputParts :
          /\ p.paragraphs # <<>>
          /\ \E k \in DOMAIN p.heads : p.heads[k].paragraphs # <<>>

\* C8 (Heads and Parts): a Head that a step attaches is appended once, to
\* the heads of the Part active before the step, or to the root if there is
\* none; a Part marker or the end of input leaves the Part active before it
\* in the root, once.
HeadTarget ==
    IF current_part # NoneDict THEN <<current_part.line, "heads">> ELSE <<0, "root">>
C8_HeadAndPartAttachment ==
    [][ /\ \A i \in LinesOfKind("head") :
             ( /\ Places(i, structured_content, NoneDict, NoneDict) = {}
               /\ Places(i, structured_content', current_part', NoneDict) # {} )
             => LET places == Places(i, structured_content', current_part', NoneDict)
                IN  /\ Cardinality(places) = 1
                    /\ \A pl \in places : <<pl[1], pl[2]>> = HeadTarget
        /\ ( /\ pc = "loop"
             /\ current_part # NoneDict
             /\ (line_idx > Len(text_lines) \/ Kind(text_lines[line_idx]) = "part") )
           => \E k \in DOMAIN structured_content' :
                 Places(current_part.line, structured_content', NoneDict, NoneDict)
                     = {<<0, "root", k>>} ]_vars

C8_Witness ==
    /\ Done
    /\ \E n \in Range(structured_content) : n.type = "head"
    /\ \E p \in OutputParts : p.heads # <<>>

\* C9 (title lookahead): each of the two lines after a Part or Head marker
\* is taken into the title only if it is no Part, Head or Paragraph marker;
\* if the first is such a marker the title is empty.
ClaimedTitle(lines, i) ==
    IF i + 1 <= Len(lines) /\ NotPartHeadParagraph(lines[i + 1])
    THEN lines[i + 1]
           \o (IF i + 2 <= Len(lines) /\ NotPartHeadParagraph(lines[i + 2])
               THEN lines[i + 2] ELSE <<>>)
    ELSE <<>>
C9_TitleLookahead ==
    /\ current_part # NoneDict =>
          current_part.title = ClaimedTitle(text_lines, current_part.line)
    /\ current_head # NoneDict =>
          current_head.title = ClaimedTitle(text_lines, current_head.line)

\* C10 (non-backtracking lookahead): a line taken into a Part or Head title
\* never starts a node and is never appended to a text buffer.
C10_TitleLinesConsumed == absorbed \cap (started \cup buffered) = {}


\* C11 (Scenario 2 and its general form): a Part marker, one title line, a
\* Paragraph marker without inline text and one text line yield one Part
\* (identifier: the keyword and the whole identifier word, title: the title
\* line) holding one Paragraph whose text is that one line.
C11_Scenario2 ==
    ( /\ Done
      /\ Len(text_lines) = 4
      /\ part_re(text_lines[1])
      /\ Kind(text_lines[2]) = "text"
      /\ paragraph_re(text_lines[3]) /\ Tail3(text_lines[3]) = <<>>
      /\ Kind(text_lines[4]) = "text" )
    => structured_content =
           << [ type |-> "part",
                identifier |-> <<PartKeyword, text_lines[1][2]>>,
                title |-> text_lines[2],
                heads |-> <<>>,
                paragraphs |->
                    << [ type |-> "paragraph",
                         identifier |-> <<ParSign, paragraph_group1(text_lines[3])>>,
                         text |-> text_lines[4],
                         subsections |-> <<>>,
                         line |-> 3 ] >>,
                line |-> 1 ] >>

\* C12 (Scenario 3 and its general form): a Subsection-L1 with inline text
\* followed by k Subsection-L2 items (each with text) has the content
\* [text, L2_1 .. L2_k]; with no item (only text) its content is the single
\* string.
HasInlineSub2(lines, i) ==
    i <= Len(lines) /\ subsection_l2_re(lines[i]) /\ Tail2(lines[i]) # <<>>
RECURSIVE Sub2Run(_, _)
Sub2Run(lines, i) ==
    IF HasInlineSub2(lines, i)
    THEN << [ type |-> "subsection_level2",
              identifier |-> subsection_l2_group1(lines[i]),
              text |-> Tail2(lines[i]),
              line |-> i ] >> \o Sub2Run(lines, i + 1)
    ELSE <<>>
\* the Sub1 of marker line m is made of its inline text and a run of items
SimpleSub1(lines, m) ==
    /\ Tail2(lines[m]) # <<>>
    /\ LET after == m + 1 + Len(Sub2Run(lines, m + 1))
       IN  after > Len(lines)
             \/ Kind(lines[after]) \in {"subsection_level1", "paragraph", "head", "part"}
ClaimedContent(lines, m) ==
    IF Sub2Run(lines, m + 1) = <<>>
    THEN Str(Tail2(lines[m]))
    ELSE [type |-> "list", items |-> <<Str(Tail2(lines[m]))>> \o Sub2Run(lines, m + 1)]
C12_Scenario3 ==
    Done => \A p \in OutputParagraphs : \A k \in DOMAIN p.subsections :
                LET s == p.subsections[k]
                IN  (s.type = "subsection_level1" /\ SimpleSub1(text_lines, s.line))
                    => s.content = ClaimedContent(text_lines, s.line)

\* ---------------------------------------------------------------------
\* Where a Subsection node sits once it is stored
\* ---------------------------------------------------------------------
ItemLines(items) == { items[k].line : k \in { j \in DOMAIN items : IsDict(items[j]) } }
\* the item sequences that are, or will become, the subsections of a Paragraph
ParagraphItemSeqs(root, part, head, buffer) ==
    { p.subsections : p \in ParagraphsIn(root, part, head) } \cup {buffer}
\* the Sub1 nodes stored in a paragraph buffer or in an attached Paragraph
StoredSub1s(root, part, head, buffer) ==
    UNION { { items[k] : k \in { j \in DOMAIN items :
                                   items[j].type = "subsection_level1" } }
            : items \in ParagraphItemSeqs(root, part, head, buffer) }
\* the node of marker line id is a direct element of a Paragraph
DirectInParagraph(id, root, part, head, buffer) ==
    \E items \in ParagraphItemSeqs(root, part, head, buffer) : id \in ItemLines(items)
\* the node of marker line id is in the content of the Sub1 of marker line s
InSub1(id, s, root, part, head, buffer, l1_line, l1_buffer) ==
    \/ l1_line = s /\ id \in ItemLines(l1_buffer)
    \/ \E n \in StoredSub1s(root, part, head, buffer) :
          n.line = s /\ n.content.type = "list" /\ id \in ItemLines(n.content.items)

\* C15 (Sub2 attachment target): a step that finalizes the Subsection-L2
\* being accumulated puts it in the content of the Subsection-L1 active
\* before the step if there is one, else directly in the Paragraph's buffer.
C15_Sub2Target ==
    [][ ( /\ pc = "loop"
          /\ current_subsection_level2_text # <<>>
          /\ (line_idx > Len(text_lines) \/ Kind(text_lines[line_idx]) # "text") )
        => IF current_subsection_level1_number # None
           THEN InSub1(subsection_level2_line, subsection_level1_line,
                       structured_content', current_part', current_head',
                       current_paragraph_text',
                       subsection_level1_line', current_subsection_level1_text')
           ELSE DirectInParagraph(subsection_level2_line,
                       structured_content', current_part', current_head',
                       current_paragraph_text') ]_vars

\* C16 (no phantom level-1): a Subsection-L2 whose marker comes in a
\* Paragraph before any Subsection-L1 marker of that Paragraph is a direct
\* element of that Paragraph's subsections, and every Subsection-L1 of a
\* Paragraph comes from a marker line inside that Paragraph.
\* the marker line of the Paragraph that line i lies in (0: none)
RECURSIVE EnclosingParagraph(_, _)
EnclosingParagraph(lines, i) ==
    IF i < 1 THEN 0
    ELSE IF Kind(lines[i]) = "paragraph" THEN i
    ELSE IF Kind(lines[i]) \in {"part", "head"} THEN 0
    ELSE EnclosingParagraph(lines, i - 1)
C16_NoPhantomLevel1 ==
    Done =>
      \A p \in OutputParagraphs : \A k \in DOMAIN p.subsections :
          LET s == p.subsections[k]
          IN  s.type = "subsection_level1" =>
                /\ EnclosingParagraph(text_lines, s.line) = p.line
                /\ s.content.type = "list" =>
                     \A j \in DOMAIN s.content.items :
                        IsDict(s.content.items[j]) =>
                          LET m == s.content.items[j].line
                              q == EnclosingParagraph(text_lines, m)
                          IN  q = 0 \/ \E i \in q..m :
                                  Kind(text_lines[i]) = "subsection_level1"

\* C17 (post-processing of every Paragraph): in the output no content list
\* of a Subsection-L1 has two adjacent strings, whatever the parent of its
\* Paragraph.
NoAdjacentStrings(items) ==
    \A j \in DOMAIN items :
        j + 1 \in DOMAIN items => ~(IsStr(items[j]) /\ IsStr(items[j + 1]))
C17_EveryParagraphConsolidated ==
    Done => \A p \in OutputParagraphs : \A k \in DOMAIN p.subsections :
                LET s == p.subsections[k]
                IN  (s.type = "subsection_level1" /\ s.content.type = "list")
                    => NoAdjacentStrings(s.content.items)


\* C18 (immutability after flush): processing a line changes no node that is
\* already stored: every node attached to the root, to a Part or Head, or
\* held as an item of the paragraph or level-1 buffer is there unchanged
\* after the step.
DictItems(items) == { items[k] : k \in { j \in DOMAIN items : IsDict(items[j]) } }
StoredNodes(root, part, head, buffer, l1_buffer) ==
    LET heads == { n \in Range(root) : n.type = "head" }
                   \cup UNION { Range(p.heads) : p \in PartsIn(root, part) }
        paragraphs == ParagraphsIn(root, part, head)
        direct == UNION { DictItems(p.subsections) : p \in paragraphs }
                    \cup DictItems(buffer)
        nested == UNION { DictItems(n.content.items)
                          : n \in { d \in direct : /\ d.type = "subsection_level1"
                                                   /\ d.content.type = "list" } }
                    \cup DictItems(l1_buffer)
    IN  Range(root) \cup heads \cup paragraphs \cup direct \cup nested
C18_StoredNodesUnchanged ==
    [][ pc' = "loop" =>
          StoredNodes(structured_content, current_part, current_head,
                      current_paragraph_text, current_subsection_level1_text)
            \subseteq
          StoredNodes(structured_content', current_part', current_head',
                      current_paragraph_text', current_subsection_level1_text') ]_vars

C18_Witness ==
    /\ pc = "loop"
    /\ \E p \in ParagraphsIn(structured_content, current_part, current_head) :
          /\ p.subsections # <<>>
          /\ \E j \in LinesOfKind("paragraph") : \E i \in buffered :
                p.line < j /\ j < i /\ i < line_idx


\* The nodes a step finalizes: stored after the step, not before it.
StoredNow ==
    StoredNodes(structured_content, current_part, current_head,
                current_paragraph_text, current_subsection_level1_text)
StoredNext ==
    StoredNodes(structured_content', current_part', current_head',
                current_paragraph_text', current_subsection_level1_text')
Finalized == { n \in StoredNext : \A m \in StoredNow : m.line # n.line }
\* The levels a node of a type takes as children (lines 524-566).
Holds(parent_type, child_type) ==
    \/ parent_type = "part" /\ child_type \in {"head", "paragraph"}
    \/ parent_type = "head" /\ child_type = "paragraph"
    \/ parent_type = "paragraph"
         /\ child_type \in {"subsection_level1", "subsection_level2"}
    \/ parent_type = "subsection_level1" /\ child_type = "subsection_level2"

\* C22: flush order. In every step (a marker transition or the end of the
\* input) each node the step finalizes already contains every node the same
\* step finalizes at a level it takes as children: a Sub2 is inside the Sub1,
\* the Sub1 and Sub2 inside the Paragraph, the Paragraph inside the Head and
\* the Part, the Head inside the Part that is appended to the root.
C22_FlushOrder ==
    [][ \A d, u \in Finalized :
          Holds(u.type, d.type) => OccNode(d.line, u) = 1 ]_vars

\* C22 witness: the end of the input finalizes a whole chain at once, a Sub2
\* (the last line) inside a Sub1 inside a Paragraph inside a Head.
C22_Witness ==
    /\ Done
    /\ Len(structured_content) = 1
    /\ structured_content[1].type = "head"
    /\ Len(structured_content[1].paragraphs) = 1
    /\ \E s \in StoredSub1s(structured_content, NoneDict, NoneDict, <<>>) :
         /\ s.content.type = "list"
         /\ Len(text_lines) \in ItemLines(s.content.items)

\* C23: flush idempotence. In every reachable state, store_previous_item
\* run twice gives the context and output of one run, and when the three
\* text buffers are empty it changes no pointer, no buffer and no output.
C23_FlushIdempotent ==
    /\ store_previous_item(store_previous_item(Ctx)) = store_previous_item(Ctx)
    /\ ( /\ current_paragraph_text = <<>>
         /\ current_subsection_level1_text = <<>>
         /\ current_subsection_level2_text = <<>> )
       => store_previous_item(Ctx) = Ctx

\* C23 witness: a state with all three buffers filled under an active
\* Paragraph and Head, where one run of store_previous_item attaches a
\* Paragraph.
C23_Witness ==
    /\ current_subsection_level2_text # <<>>
    /\ current_subsection_level1_text # <<>>
    /\ current_paragraph_text # <<>>
    /\ current_paragraph_number # None
    /\ current_head # NoneDict
    /\ Len(store_previous_item(Ctx).current_head.paragraphs)
         = Len(current_head.paragraphs) + 1

\* No Paragraph, Sub1 or Sub2 pointer is set.
NoTextLevelActive ==
    /\ current_paragraph_number = None
    /\ current_subsection_level1_number = None
    /\ current_subsection_level2_letter = None
\* Line k comes after a Paragraph, Sub1 or Sub2 marker line.
AfterTextLevelMarker(k) ==
    \E j \in 1..(k - 1) :
        Kind(text_lines[j]) \in {"paragraph", "subsection_level1", "subsection_level2"}

\* C24: root-level plain text is dropped. A plain-text line processed while
\* no Paragraph, Sub1 or Sub2 pointer is set leaves every pointer, every
\* buffer and the output forest unchanged and is not buffered; a line enters
\* a buffer only at its own step or, as the lookahead line, at the step of
\* the Paragraph marker before it, so a dropped line is never in a text or
\* content; no plain-text line before the first Paragraph or Subsection
\* marker is ever buffered, and a document with no such marker gives no
\* Paragraph at all.
C24_RootTextDropped ==
    [][ /\ (AtLine("text") /\ NoTextLevelActive)
            => (Ctx' = Ctx /\ buffered' = buffered)
        /\ \A k \in buffered' \ buffered :
              \/ k = line_idx
              \/ k = line_idx + 1 /\ Kind(text_lines[line_idx]) = "paragraph"
        /\ \A k \in buffered' :
              Kind(text_lines[k]) = "text" => AfterTextLevelMarker(k)
        /\ (pc' = "done" /\ ~AfterTextLevelMarker(Len(text_lines) + 1))
            => ParagraphsIn(structured_content', NoneDict, NoneDict) = {} ]_vars

\* C24 witness: a long plain-text line before the first marker was dropped,
\* and the Paragraph and Sub1 after it are in the output.
C24_Witness ==
    /\ Done
    /\ Len(text_lines) >= 3
    /\ text_lines[1] = LongLine
    /\ 1 \notin buffered
    /\ Kind(text_lines[2]) = "paragraph"
    /\ Len(structured_content) = 1
    /\ structured_content[1].type = "paragraph"
    /\ StoredSub1s(structured_content, NoneDict, NoneDict, <<>>) # {}

\* seq is the start of longer
StartOf(seq, longer) ==
    /\ Len(seq) <= Len(longer)
    /\ \A k \in DOMAIN seq : longer[k] = seq[k]
\* the Part dicts of the root sequence
RootParts(root) == SelectSeq(root, LAMBDA n : n.type = "part")

\* C25: transitions keep the shallower context. A Head marker leaves the
\* active Part the same Part, with its title and with the children it had
\* still in place; a Sub1 marker leaves the Paragraph, Head and Part
\* pointers as they were and a Sub2 marker the Sub1 pointer too; none of
\* the three adds a Part to the root, and a Sub1 or Sub2 marker changes
\* neither the root nor the Part nor the Head and only appends to the
\* paragraph buffer.
C25_ShallowerContextKept ==
    [][ /\ AtLine("head") =>
            /\ (current_part = NoneDict) = (current_part' = NoneDict)
            /\ current_part # NoneDict =>
                  /\ current_part'.line = current_part.line
                  /\ current_part'.identifier = current_part.identifier
                  /\ current_part'.title = current_part.title
                  /\ StartOf(current_part.heads, current_part'.heads)
                  /\ StartOf(current_part.paragraphs, current_part'.paragraphs)
            /\ RootParts(structured_content') = RootParts(structured_content)
        /\ (AtLine("subsection_level1") \/ AtLine("subsection_level2")) =>
            /\ current_paragraph_number' = current_paragraph_number
            /\ paragraph_line' = paragraph_line
            /\ StartOf(current_paragraph_text, current_paragraph_text')
            /\ current_head' = current_head
            /\ current_part' = current_part
            /\ structured_content' = structured_content
        /\ AtLine("subsection_level2") =>
            /\ current_subsection_level1_number' = current_subsection_level1_number
            /\ subsection_level1_line' = subsection_level1_line ]_vars

\* C25 witness: a Sub1 marker has just been processed under an active
\* Paragraph with text, inside an active Head, inside an active Part.
C25_Witness ==
    /\ pc = "loop"
    /\ line_idx = 5
    /\ Kind(text_lines[4]) = "subsection_level1"
    /\ subsection_level1_line = 4
    /\ paragraph_line = 3
    /\ current_paragraph_text # <<>>
    /\ current_head # NoneDict
    /\ current_part # NoneDict

\* ------------------------------------------------ continuation heuristic
\* The first words that start with the paragraph sign, with an open
\* parenthesis, with the article abbreviation as written, and with it in
\* any letter case.
ParSignWords == {ParSign, "PARabc"}
ParenWords == {"(1)", "(2)", "(x)"}
ClWords == {"cl."}
ClWordsAnyCase == {"cl.", "Cl."}
\* the line after the Paragraph marker at line_idx, <<>> when there is none
NextLine ==
    IF line_idx + 1 <= Len(text_lines) THEN text_lines[line_idx + 1] ELSE <<>>
\* the condition of the heuristic, with the given article abbreviations
MergeCondition(cl_words) ==
    /\ line_idx + 1 <= Len(text_lines)
    /\ Kind(NextLine) = "text"
    /\ NextLine[1] \notin ParSignWords \cup ParenWords \cup cl_words
    /\ Len(NextLine) <= MaxTitleWords
\* the paragraph buffer after the store and the inline text of the marker
SeededBuffer ==
    LET stored == store_previous_item(Ctx).current_paragraph_text
        inline == Tail3(text_lines[line_idx])
    IN  IF inline # <<>> THEN Append(stored, Str(inline)) ELSE stored
StringPositions(buffer) == { k \in DOMAIN buffer : IsStr(buffer[k]) }
\* the line joined to the last string segment, or a new segment
MergedInto(buffer, line) ==
    IF StringPositions(buffer) # {}
    THEN LET k == CHOOSE j \in StringPositions(buffer) :
                      \A i \in StringPositions(buffer) : i <= j
         IN  [buffer EXCEPT ![k] = Str(@.text \o line)]
    ELSE Append(buffer, Str(line))
\* the string segments a step adds to, or changes in, the paragraph buffer
NewStrings ==
    { current_paragraph_text'[k] :
        k \in { j \in StringPositions(current_paragraph_text') :
                  \/ j \notin DOMAIN current_paragraph_text
                  \/ current_paragraph_text[j] # current_paragraph_text'[j] } }
HeuristicStep(cl_words) ==
    /\ AtLine("paragraph") =>
          current_paragraph_text' =
              IF MergeCondition(cl_words)
              THEN MergedInto(SeededBuffer, NextLine)
              ELSE SeededBuffer
    /\ (pc = "loop" /\ line_idx <= Len(text_lines)
          /\ Kind(text_lines[line_idx]) # "paragraph")
       => NewStrings \subseteq {Str(text_lines[line_idx])}

\* C26 as stated: right after a Paragraph marker the next line is merged
\* into the paragraph buffer exactly when it is no marker, does not start
\* with the paragraph sign, "(" or "cl." as written, and has at most 10
\* words; it is joined to the last string segment or becomes a new one;
\* no other step joins a following line to the buffer.
C26_ContinuationHeuristic == [][HeuristicStep(ClWords)]_vars

\* C26 amended: the same with the article abbreviation compared in lower
\* case, so that a line starting with "Cl." is not merged either.
C26_HeuristicAnyCase == [][HeuristicStep(ClWordsAnyCase)]_vars

\* C26 witness: a ten-word line after a Paragraph marker with inline text
\* was joined to that text, and then appended by the plain-text branch.
C26_Witness ==
    /\ pc = "loop"
    /\ line_idx = 3
    /\ text_lines[1] = <<ParSign, "2", "x">>
    /\ text_lines[2] = TenWords
    /\ current_paragraph_text = <<Str(<<"x">> \o TenWords), Str(TenWords)>>

\* ------------------------------------------------ container at marker time
\* The container active when line i is classified: the Head of the last
\* Head line before i with no Part line after it, else the Part of the last
\* Part line before i, else the root.
LastLineBefore(i, kind) ==
    LET before == { m \in 1..(i - 1) : Kind(text_lines[m]) = kind }
    IN  IF before = {} THEN 0 ELSE CHOOSE m \in before : \A q \in before : q <= m
MarkerTimeContainer(i) ==
    LET h == LastLineBefore(i, "head")
        p == LastLineBefore(i, "part")
    IN  IF h > p THEN <<h, "paragraphs">>
        ELSE IF p > 0 THEN <<p, "paragraphs">>
        ELSE <<0, "root">>

\* C30 (container at marker time): every Paragraph of the output is a child
\* of the Head active when its marker line was classified, else of the Part
\* active then, else of the root; so never of a Head or Part whose marker
\* line comes after its own.
C30_ContainerAtMarkerTime ==
    Done =>
      \A i \in LinesOfKind("paragraph") :
        \A pl \in Places(i, structured_content, NoneDict, NoneDict) :
            <<pl[1], pl[2]>> = MarkerTimeContainer(i)

\* C31 (no leakage of orphan subsections): a Sub1 or Sub2 node is found only
\* inside the Paragraph active when its marker line was classified, the
\* last Paragraph line before it with no Part or Head line in between; a
\* subsection whose marker comes while no Paragraph is active is inside no
\* Paragraph, in particular none whose marker comes later.
C31_NoOrphanLeak ==
    Done =>
      \A i \in LinesOfKind("subsection_level1") \cup LinesOfKind("subsection_level2") :
        \A p \in OutputParagraphs :
            OccNode(i, p) >= 1 => p.line = EnclosingParagraph(text_lines, i)

\* ======================================================================
\* Claims about the conversion of one document (SpecMeta)
\* ======================================================================
\* C13 as stated (Scenario 4): for the empty input structure_text_content
\* returns the empty sequence and every field of the record returned by
\* extract_metadata is "UNKNOWN".
C13_EmptyInputAllUnknown ==
    text_lines = <<>> =>
      /\ pc = "source_file" => \A f \in DOMAIN metadata : metadata[f] = Unknown
      /\ pc = "done" => structured_content = <<>>

\* C13 amended: for the empty input structure_text_content returns the empty
\* sequence, and in the record returned by extract_metadata law_id, title,
\* effective_date, publication_date and enforcing_agency are "UNKNOWN",
\* references is the empty list and source_file is the empty string.
C13_EmptyInput ==
    text_lines = <<>> =>
      /\ pc # "extract_metadata" =>
           /\ metadata.law_id = Unknown
           /\ metadata.title = Unknown
           /\ metadata.effective_date = Unknown
           /\ metadata.publication_date = Unknown
           /\ metadata.enforcing_agency = Unknown
           /\ metadata.references = <<>>
      /\ pc = "source_file" => metadata.source_file = <<>>
      /\ pc = "done" => structured_content = <<>>

C13_Witness ==
    /\ text_lines = <<>>
    /\ pc = "done"
    /\ metadata.references = <<>>
    /\ structured_content = <<>>

\* The first line matching the identifier pattern, 0 if there is none.
FirstIdLine(lines) ==
    LET ids == { i \in DOMAIN lines : match_id(lines[i]) }
    IN  IF ids = {} THEN 0 ELSE CHOOSE i \in ids : \A m \in ids : i <= m

\* C14 as stated (Scenario 5): whenever the first identifier line is followed
\* by a line that is not a structural marker, law_id is that identifier and
\* the title is populated (it is not "UNKNOWN").
C14_Scenario5 ==
    pc # "extract_metadata" =>
      LET i == FirstIdLine(text_lines)
      IN  (i # 0 /\ i < Len(text_lines) /\ Kind(text_lines[i + 1]) = "text") =>
            /\ metadata.law_id = << match_id_group1(text_lines[i]), "Sb." >>
            /\ metadata.title # Unknown

EndsTitle(line) ==
    StartsWithParSign(line) \/ ContainsPartKeyword(line) \/ ContainsHeadKeyword(line)
\* The last of the lines after identifier line i that the title can take:
\* at most four lines, none at or after a line that ends the title.
TitleRunEnd(lines, i) ==
    LET stop == IF (i - 1) + TitleRangeStop < Len(lines)
                THEN (i - 1) + TitleRangeStop ELSE Len(lines)
        run == { j \in i..stop : \A m \in (i + 1)..j : ~EndsTitle(lines[m]) }
    IN  CHOOSE j \in run : \A m \in run : m <= j

\* C14 amended: whenever the first identifier line is followed by a line that
\* does not start with the paragraph sign, contains neither the Part nor the
\* Head keyword and contains a title cue, law_id is that identifier and the
\* title is not "UNKNOWN": it is the text of the following lines up to the
\* fourth and before the first line that ends the title, with a leading date
\* phrase and a leading kind word removed.
C14_TitleFromCueLine ==
    pc # "extract_metadata" =>
      LET i == FirstIdLine(text_lines)
      IN  ( /\ i # 0
            /\ i < Len(text_lines)
            /\ ~EndsTitle(text_lines[i + 1])
            /\ HasTitleCue(text_lines[i + 1]) ) =>
            /\ metadata.law_id = << match_id_group1(text_lines[i]), "Sb." >>
            /\ metadata.title # Unknown
            /\ metadata.title =
                 CleanTitle(FlattenLines(SubSeq(text_lines, i + 1,
                                                TitleRunEnd(text_lines, i))))

C14_Witness ==
    /\ pc = "source_file"
    /\ LET i == FirstIdLine(text_lines)
       IN  /\ i # 0
           /\ i + 2 <= Len(text_lines)
           /\ ~EndsTitle(text_lines[i + 1])
           /\ HasTitleCue(text_lines[i + 1])
           /\ ~EndsTitle(text_lines[i + 2])
           /\ ~HasTitleCue(text_lines[i + 2])
           /\ metadata.title # Unknown


\* --------------------------------------------------------- title filtering
\* the (at most four) lines following identifier line i
TitleWindow(lines, i) ==
    (i + 1)..(IF i + 4 < Len(lines) THEN i + 4 ELSE Len(lines))
IsMarkerLine(line) == Kind(line) \in {"part", "head", "paragraph"}
\* lines of the window with a cue and with no structural marker up to them
CueLinesBeforeMarker(lines, i) ==
    { m \in TitleWindow(lines, i) :
        /\ HasTitleCue(lines[m])
        /\ \A q \in (i + 1)..m : ~IsMarkerLine(lines[q]) }
\* the words of the lines at the given positions, in document order
RECURSIVE LinesAt(_, _)
LinesAt(lines, positions) ==
    IF positions = {} THEN <<>>
    ELSE LET m == CHOOSE p \in positions : \A q \in positions : q <= p
         IN  LinesAt(lines, positions \ {m}) \o lines[m]

\* C27 as stated: the title is "UNKNOWN" or is assembled from lines with a
\* title cue among the four lines after the identifier line, before the
\* first Part, Head or Paragraph line; no other line is in it.
C27_TitleFiltering ==
    pc # "extract_metadata" =>
      LET i == FirstIdLine(text_lines)
      IN  \/ metadata.title = Unknown
          \/ /\ i # 0
             /\ \E chosen \in SUBSET CueLinesBeforeMarker(text_lines, i) :
                   metadata.title = CleanTitle(LinesAt(text_lines, chosen))

\* the lines the title loop passes: the window up to the line before the
\* first one that starts with the paragraph sign or contains the Part or
\* Head keyword in capitals
PassedLines(lines, i) ==
    { m \in TitleWindow(lines, i) : \A q \in (i + 1)..m : ~EndsTitle(lines[q]) }
CueLines(lines, i) == { m \in PassedLines(lines, i) : HasTitleCue(lines[m]) }

\* C27 amended: the title is assembled from the passed lines starting at
\* the first one with a title cue: that line and every passed line after
\* it, with or without a cue; lines before the first cue line, lines at or
\* after the line that ends the title and lines beyond the fourth are not
\* in it; with no identifier line or no cue line it stays "UNKNOWN".
C27_TitleFromFirstCue ==
    pc # "extract_metadata" =>
      LET i == FirstIdLine(text_lines)
      IN  IF i = 0 \/ CueLines(text_lines, i) = {}
          THEN metadata.title = Unknown
          ELSE LET first == CHOOSE m \in CueLines(text_lines, i) :
                               \A q \in CueLines(text_lines, i) : m <= q
               IN  metadata.title =
                     CleanTitle(LinesAt(text_lines,
                        { m \in PassedLines(text_lines, i) : m >= first }))

\* C27 witness: after the identifier line come a line without a cue, a cue
\* line, a line without a cue, a cue line and a fifth line with a cue: the
\* title is the second to the fourth of them.
C27_Witness ==
    /\ pc # "extract_metadata"
    /\ text_lines = << <<"101/2000", "Sb.">>, <<"Sbirka">>, <<"ZAKON", "o", "ochrane">>,
                       <<"Sbirka">>, <<"ZAKON", "o", "ochrane">>,
                       <<"ZAKON", "o", "ochrane">> >>
    /\ metadata.title = <<"o", "ochrane", "Sbirka", "ZAKON", "o", "ochrane">>

\* C28 (publication date): publication_date is the first date phrase
\* "ze dne <day>. <month> <year>" in the first ten lines, whether or not the
\* document has an identifier line, and "UNKNOWN" only when those lines hold
\* no such phrase.
C28_PublicationDate ==
    pc # "extract_metadata" =>
      LET words == FlattenLines(FirstLines(text_lines, PublicationDateLines))
      IN  metadata.publication_date =
            IF DatePositions(words) # {} THEN date_match_group1(words) ELSE Unknown

\* ------------------------------------------------------- reference list
\* the references matched in line i, and the first line matching ref
MatchedIn(i) == Range(LineReferences(text_lines[i]))
FirstLineWith(ref) ==
    CHOOSE i \in DOMAIN text_lines :
        /\ ref \in MatchedIn(i)
        /\ \A m \in 1..(i - 1) : ref \notin MatchedIn(m)

\* C29 (cross-reference list): the references list holds no string twice,
\* holds every simple or compound reference matched in some line and
\* nothing else, and is ordered by the first line matching each reference.
C29_ReferenceList ==
    pc # "extract_metadata" =>
      LET refs == metadata.references
      IN  /\ \A a, b \in DOMAIN refs : a # b => refs[a] # refs[b]
          /\ Range(refs) = UNION { MatchedIn(i) : i \in DOMAIN text_lines }
          /\ \A a, b \in DOMAIN refs :
                FirstLineWith(refs[a]) < FirstLineWith(refs[b]) => a < b

\* C29 witness: a simple reference matched in the first line, the same
\* reference and a compound one in the second, the simple one again in the
\* third: the list is the simple reference, then the compound one.
C29_Witness ==
    /\ pc # "extract_metadata"
    /\ Len(text_lines) = 3
    /\ text_lines[1] = text_lines[3]
    /\ Len(LineReferences(text_lines[1])) = 1
    /\ Len(LineReferences(text_lines[2])) = 2
    /\ metadata.references =
         << <<"zakona", "c.", "7/1999", "Sb.">>,
            <<ParSign, "2", "zakona", "c.", "7/1999", "Sb.">> >>

\* ======================================================================
\* Claims about the batch driver (SpecBatch)
\* ======================================================================
Printed(text, path) == \E n \in DOMAIN stdout : stdout[n] = Say(text, path)
FailedAt(k) ==
    \/ Printed("Error opening PDF", input_pdf_path(listing[k]))
    \/ Printed("Error writing JSON", output_json_path(listing[k]))
    \/ Printed("Error processing file", input_pdf_path(listing[k]))

\* C20 (batch error isolation): no exception leaves the per-file step, the
\* loop goes on to the next entry after a failed document, and when the
\* script has finished every PDF of the listing has been processed.
C20_BatchErrorIsolation ==
    /\ ~uncaught
    /\ pc = "files" =>
         \A k \in 1..(file_idx - 1) : IsPdf(listing[k]) =>
            Printed("Processing", input_pdf_path(listing[k]))
    /\ (pc = "finished" /\ input_directory_exists) =>
         \A k \in DOMAIN listing : IsPdf(listing[k]) =>
            Printed("Processing", input_pdf_path(listing[k]))

C20_Witness ==
    /\ pc = "finished"
    /\ input_directory_exists
    /\ \E j, k, m \in DOMAIN listing :
          /\ j < k /\ k < m
          /\ Printed("Error opening PDF", input_pdf_path(listing[j]))
          /\ Printed("Error processing file", input_pdf_path(listing[k]))
          /\ output_json_path(listing[m]) \in outputs


\* C32 (faithful batch reporting): a document is reported as successfully
\* processed only if its output record was written; a document whose
\* opening or whose output write failed has an error report and no success
\* report.
C32_FaithfulReporting ==
    \A k \in DOMAIN listing : IsPdf(listing[k]) =>
        /\ Printed("Successfully processed", input_pdf_path(listing[k]))
             => output_json_path(listing[k]) \in outputs
        /\ ( \/ Printed("Error opening PDF", input_pdf_path(listing[k]))
             \/ Printed("Error writing JSON", output_json_path(listing[k])) )
             => ~Printed("Successfully processed", input_pdf_path(listing[k]))

\* ======================================================================
\* Claims about the whole conversion (SpecConvert)
\* ======================================================================
\* C21 (input lines unchanged): once cleaned_lines is computed no step
\* changes it, neither extract_metadata nor the structuring loop, so the
\* text_content of the output record is the sequence both passes received;
\* and every element of it is a non-empty stripped line.
C21_InputLinesUnchanged ==
    [][ /\ pc # "clean" => text_lines' = text_lines
        /\ \A k \in DOMAIN text_lines' : text_lines'[k] # <<>>
        /\ pc' = "done" =>
             output_data'.text_content = cleaned_lines(all_text_lines) ]_vars

C21_Witness ==
    /\ pc = "done"
    /\ Len(text_lines) >= 2
    /\ Len(text_lines) < Len(all_text_lines)
    /\ metadata.law_id # Unknown
    /\ structured_content # <<>>

====
